---- MODULE Spec2Model ----
(***************************************************************************)
(* The word-search placer of src/word_search.py: generate_word_search and  *)
(* the grid helpers it calls (generate_grid, can_place_word, place_word,   *)
(* fill_empty_spaces).  One behaviour is one call of generate_word_search; *)
(* every value drawn from the random module is a nondeterministic choice.  *)
(***************************************************************************)
EXTENDS Integers, Sequences, FiniteSets, TLC

(* ------------------------------ bounds -------------------------------- *)
\* rows and cols range over 0..MaxDim (negative values behave as 0:
\* range(n) is empty and randint(0, n-1) raises for every n <= 0)
MaxDim == 2
\* the input list holds at most MaxWords words
MaxWords == 2
\* max_attempts ranges over 0..MaxAttempts, max_retries over 0..MaxRetries
MaxAttempts == 2
MaxRetries == 2

(* --------------------------- characters ------------------------------- *)
\* the empty cell of generate_grid
EMPTY == " "

\* string.ascii_uppercase
ascii_uppercase ==
    {"A", "B", "C", "D", "E", "F", "G", "H", "I", "J", "K", "L", "M",
     "N", "O", "P", "Q", "R", "S", "T", "U", "V", "W", "X", "Y", "Z"}

\* The letters the explored draws of random.choice(string.ascii_uppercase)
\* yield: one that also occurs in words and one that occurs in no word.
NoiseLetters == {"A", "Z"}

\* The characters the explored words are made of: an uppercase letter and a
\* lowercase one (the reader strips spaces and nothing else).
WordChars == {"A", "b"}

\* a word of MaxDim + 1 letters: longer than any explored grid is wide or high
LongWord == [i \in 1..(MaxDim + 1) |-> "A"]

\* Words of the explored inputs: every non-empty word of at most MaxDim
\* characters, and LongWord.
Words == UNION {[1..n -> WordChars] : n \in 1..MaxDim} \cup {LongWord}

\* The explored word lists (the argument words of generate_word_search).
WordLists == UNION {[1..n -> Words] : n \in 0..MaxWords}

(* ------------------------------ helpers ------------------------------- *)
\* the list directions of generate_word_search; random.shuffle reorders it
\* and random.choice then draws any one of its eight members
directions ==
    {<<1, 0>>, <<0, 1>>, <<1, 1>>, <<-1, 1>>,
     <<1, -1>>, <<-1, -1>>, <<0, -1>>, <<-1, 0>>}

\* generate_grid(rows, cols): cell (r, c) is grid[r][c]
generate_grid(nrows, ncols) ==
    [cell \in (0..(nrows - 1)) \X (0..(ncols - 1)) |-> EMPTY]

\* r, c = row + i * delta_row, col + i * delta_col
Target(row, col, direction, i) ==
    <<row + i * direction[1], col + i * direction[2]>>

\* a Python list index: a negative one counts from the end
PyIndex(k, n) == IF k < 0 THEN k + n ELSE k

\* can_place_word with only the upper bounds tested: a negative index then
\* reads the cell counted from the far edge
can_place_word_no_lower_bound(g, nrows, ncols, word, row, col, direction) ==
    \A i \in 0..(Len(word) - 1) :
        LET t == Target(row, col, direction, i)
            cell == <<PyIndex(t[1], nrows), PyIndex(t[2], ncols)>>
        IN  /\ t[1] < nrows /\ t[2] < ncols
            /\ cell \in DOMAIN g
            /\ g[cell] \in {EMPTY, word[i + 1]}

\* can_place_word with the letter test left out: only the bounds are checked
can_place_word_bounds_only(g, nrows, ncols, word, row, col, direction) ==
    \A i \in 0..(Len(word) - 1) :
        LET t == Target(row, col, direction, i)
        IN  0 <= t[1] /\ t[1] < nrows /\ 0 <= t[2] /\ t[2] < ncols

\* can_place_word with the loop run once too often, the extra target being
\* tested against the bounds only
can_place_word_one_step_more(g, nrows, ncols, word, row, col, direction) ==
    /\ \A i \in 0..(Len(word) - 1) :
           LET t == Target(row, col, direction, i)
           IN  /\ 0 <= t[1] /\ t[1] < nrows /\ 0 <= t[2] /\ t[2] < ncols
               /\ g[t] \in {EMPTY, word[i + 1]}
    /\ LET t == Target(row, col, direction, Len(word))
       IN  0 <= t[1] /\ t[1] < nrows /\ 0 <= t[2] /\ t[2] < ncols

\* can_place_word: for every i the target is inside the grid (tested first)
\* and the cell holds ' ' or word[i]
can_place_word(g, nrows, ncols, word, row, col, direction) ==
    \A i \in 0..(Len(word) - 1) :
        LET t == Target(row, col, direction, i)
        IN  /\ 0 <= t[1] /\ t[1] < nrows /\ 0 <= t[2] /\ t[2] < ncols
            /\ g[t] \in {EMPTY, word[i + 1]}

\* the loop of can_place_word from index i on: the value returned and the
\* index pairs at which grid[r][c] was read (the bounds are tested first and
\* the first failing test returns)
RECURSIVE can_place_word_loop(_, _, _, _, _, _, _, _, _)
can_place_word_loop(g, nrows, ncols, word, row, col, direction, i, reads) ==
    IF i >= Len(word) THEN [ret |-> TRUE, reads |-> reads]
    ELSE LET t == Target(row, col, direction, i)
         IN  IF ~(0 <= t[1] /\ t[1] < nrows /\ 0 <= t[2] /\ t[2] < ncols)
             THEN [ret |-> FALSE, reads |-> reads]
             ELSE IF g[t] \notin {EMPTY, word[i + 1]}
                  THEN [ret |-> FALSE, reads |-> reads \cup {t}]
                  ELSE can_place_word_loop(g, nrows, ncols, word, row, col,
                                           direction, i + 1, reads \cup {t})

\* the loop with the two tests of line 28 swapped: the cell is read first, a
\* negative index reading from the far edge and a too large one raising
RECURSIVE can_place_word_loop_reads_first(_, _, _, _, _, _, _, _, _)
can_place_word_loop_reads_first(g, nrows, ncols, word, row, col, direction, i, reads) ==
    IF i >= Len(word) THEN [ret |-> TRUE, reads |-> reads]
    ELSE LET t == Target(row, col, direction, i)
             cell == <<PyIndex(t[1], nrows), PyIndex(t[2], ncols)>>
         IN  IF cell \notin DOMAIN g
             THEN [ret |-> FALSE, reads |-> reads \cup {t}]
             ELSE IF \/ g[cell] \notin {EMPTY, word[i + 1]}
                     \/ ~(0 <= t[1] /\ t[1] < nrows /\ 0 <= t[2] /\ t[2] < ncols)
                  THEN [ret |-> FALSE, reads |-> reads \cup {t}]
                  ELSE can_place_word_loop_reads_first(
                           g, nrows, ncols, word, row, col, direction,
                           i + 1, reads \cup {t})

can_place_word_run_reads_first(g, nrows, ncols, word, row, col, direction) ==
    can_place_word_loop_reads_first(g, nrows, ncols, word, row, col, direction, 0, {})

\* a call of can_place_word as executed, statement by statement
can_place_word_run(g, nrows, ncols, word, row, col, direction) ==
    can_place_word_loop(g, nrows, ncols, word, row, col, direction, 0, {})

\* can_place_word writing each letter it has checked
can_place_word_grid_writes(g, nrows, ncols, word, row, col, direction) ==
    [cell \in DOMAIN g |->
        IF \E i \in 0..(Len(word) - 1) :
               /\ Target(row, col, direction, i) = cell
               /\ \A j \in 0..i :
                      LET t == Target(row, col, direction, j)
                      IN  t \in DOMAIN g /\ g[t] \in {EMPTY, word[j + 1]}
        THEN word[1 + CHOOSE i \in 0..(Len(word) - 1) :
                        Target(row, col, direction, i) = cell]
        ELSE g[cell]]

\* the grid as a call of can_place_word leaves it: its body assigns to no cell
can_place_word_grid(g, nrows, ncols, word, row, col, direction) == g

RECURSIVE place_from(_, _, _, _, _, _, _, _)
place_from(g, nrows, ncols, word, row, col, direction, i) ==
    IF i >= Len(word) THEN g
    ELSE LET t == Target(row, col, direction, i)
             cell == <<PyIndex(t[1], nrows), PyIndex(t[2], ncols)>>
         IN  place_from([g EXCEPT ![cell] = word[i + 1]],
                        nrows, ncols, word, row, col, direction, i + 1)

\* place_word with delta_row used for the column step as well
place_word_row_step_twice(g, nrows, ncols, word, row, col, direction) ==
    place_from(g, nrows, ncols, word, row, col, <<direction[1], direction[1]>>, 0)

\* place_word: grid[row + i * delta_row][col + i * delta_col] = word[i], in
\* the order of i
place_word(g, nrows, ncols, word, row, col, direction) ==
    place_from(g, nrows, ncols, word, row, col, direction, 0)

EmptyCells(g) == {cell \in DOMAIN g : g[cell] = EMPTY}

\* fill_empty_spaces with the row loop one short: the last row is not visited
fill_empty_spaces_short_loop(g, noise) ==
    [cell \in DOMAIN g |->
        IF g[cell] = EMPTY /\ (\E other \in DOMAIN g : other[1] > cell[1])
        THEN noise[cell] ELSE g[cell]]

\* fill_empty_spaces without the test of line 43: every cell gets a letter
fill_empty_spaces_every_cell(g, noise) ==
    [cell \in DOMAIN g |-> IF g[cell] = EMPTY THEN noise[cell] ELSE "Z"]

\* fill_empty_spaces: every cell equal to ' ' gets the letter drawn for it
fill_empty_spaces(g, noise) ==
    [cell \in DOMAIN g |-> IF g[cell] = EMPTY THEN noise[cell] ELSE g[cell]]

\* insert_by_len with > for >=: w goes before the words of its own length
RECURSIVE insert_by_len_before_ties(_, _)
insert_by_len_before_ties(sorted, w) ==
    IF sorted = <<>> THEN <<w>>
    ELSE IF Len(Head(sorted)) > Len(w)
         THEN <<Head(sorted)>> \o insert_by_len_before_ties(Tail(sorted), w)
         ELSE <<w>> \o sorted

\* one step of the stable sort: w goes behind every word at least as long
RECURSIVE insert_by_len(_, _)
insert_by_len(sorted, w) ==
    IF sorted = <<>> THEN <<w>>
    ELSE IF Len(Head(sorted)) >= Len(w)
         THEN <<Head(sorted)>> \o insert_by_len(Tail(sorted), w)
         ELSE <<w>> \o sorted

\* sorted(words, key=len, reverse=True)
RECURSIVE sorted_by_len(_)
sorted_by_len(ws) ==
    IF ws = <<>> THEN <<>>
    ELSE insert_by_len(sorted_by_len(SubSeq(ws, 1, Len(ws) - 1)), ws[Len(ws)])

(* ------------------------------- state -------------------------------- *)
VARIABLES
    input_words,     \* the argument words, as passed
    words,           \* words after line 52
    rows, cols, max_attempts, max_retries,
    pc,              \* position in generate_word_search
    attempt,         \* outer attempts started
    grid, word_positions, unplaced_words,
    widx,            \* index in words of the word of the for loop
    attempts, placed,
    draw,            \* <<row, col, direction>> while can_place_word's True is pending
    outcome,         \* "running", "returned" or the exception raised
    reported,        \* the words named in the ValueError of line 84
    result,          \* the returned <<grid, word_positions>>
    failed_earlier   \* history: the words left unplaced by an earlier attempt

vars == <<input_words, words, rows, cols, max_attempts, max_retries, pc,
          attempt, grid, word_positions, unplaced_words, widx, attempts,
          placed, draw, outcome, reported, result, failed_earlier>>

args == <<input_words, words, rows, cols, max_attempts, max_retries>>

NoDraw == <<>>
NoResult == <<>>

Init ==
    /\ input_words \in WordLists
    /\ words = sorted_by_len(input_words)
    /\ rows \in 0..MaxDim
    /\ cols \in 0..MaxDim
    /\ max_attempts \in 0..MaxAttempts
    /\ max_retries \in 0..MaxRetries
    /\ pc = "for_attempt"
    /\ attempt = 0
    /\ grid = generate_grid(0, 0)
    /\ word_positions = <<>>
    /\ unplaced_words = <<>>
    /\ widx = 0
    /\ attempts = 0
    /\ placed = FALSE
    /\ draw = NoDraw
    /\ outcome = "running"
    /\ reported = <<>>
    /\ result = NoResult
    /\ failed_earlier = {}

(* ------------------------------ actions ------------------------------- *)
\* StartAttempt with unplaced_words created once, before the loop
StartAttempt_keeps_unplaced ==
    /\ pc = "for_attempt"
    /\ attempt < max_retries
    /\ attempt' = attempt + 1
    /\ grid' = generate_grid(rows, cols)
    /\ word_positions' = <<>>
    /\ widx' = 1
    /\ pc' = "for_word"
    /\ UNCHANGED <<args, unplaced_words, attempts, placed, draw, outcome,
                   reported, result, failed_earlier>>

\* StartAttempt with the grid created once, by the first attempt
StartAttempt_keeps_grid ==
    /\ pc = "for_attempt"
    /\ attempt < max_retries
    /\ attempt' = attempt + 1
    /\ grid' = IF attempt = 0 THEN generate_grid(rows, cols) ELSE grid
    /\ word_positions' = <<>>
    /\ unplaced_words' = <<>>
    /\ widx' = 1
    /\ pc' = "for_word"
    /\ UNCHANGED <<args, attempts, placed, draw, outcome, reported, result, failed_earlier>>

\* for attempt in range(max_retries): a fresh grid and fresh lists
StartAttempt ==
    /\ pc = "for_attempt"
    /\ attempt < max_retries
    /\ attempt' = attempt + 1
    /\ grid' = generate_grid(rows, cols)
    /\ word_positions' = <<>>
    /\ unplaced_words' = <<>>
    /\ widx' = 1
    /\ pc' = "for_word"
    /\ UNCHANGED <<args, attempts, placed, draw, outcome, reported, result, failed_earlier>>

\* the raise after the loop; with no attempt run unplaced_words is unbound
RaiseUnplaced ==
    /\ pc = "for_attempt"
    /\ attempt >= max_retries
    /\ pc' = "done"
    /\ IF attempt = 0
       THEN outcome' = "UnboundLocalError" /\ reported' = reported
       ELSE outcome' = "ValueError: Could not place" /\ reported' = unplaced_words
    /\ UNCHANGED <<args, attempt, grid, word_positions, unplaced_words, widx,
                   attempts, placed, draw, result, failed_earlier>>

\* for word in words: placed = False, attempts = 0, shuffle
NextWord ==
    /\ pc = "for_word"
    /\ widx <= Len(words)
    /\ placed' = FALSE
    /\ attempts' = 0
    /\ pc' = "while"
    /\ UNCHANGED <<args, attempt, grid, word_positions, unplaced_words, widx,
                   draw, outcome, reported, result, failed_earlier>>

\* a trial that commits its draw without the test of can_place_word
Trial_unchecked(row, col, direction) ==
    /\ pc = "while"
    /\ ~placed /\ attempts < max_attempts
    /\ rows > 0 /\ cols > 0
    /\ grid' = can_place_word_grid(grid, rows, cols, words[widx], row, col, direction)
    /\ draw' = <<row, col, direction>>
    /\ pc' = "place"
    /\ UNCHANGED <<args, attempt, attempts, word_positions, unplaced_words, widx,
                   placed, outcome, reported, result, failed_earlier>>

\* a trial with the while condition attempts <= max_attempts
Trial_one_too_many(row, col, direction) ==
    /\ pc = "while"
    /\ ~placed /\ attempts <= max_attempts
    /\ rows > 0 /\ cols > 0
    /\ grid' = can_place_word_grid(grid, rows, cols, words[widx], row, col, direction)
    /\ IF can_place_word(grid, rows, cols, words[widx], row, col, direction)
       THEN /\ draw' = <<row, col, direction>>
            /\ pc' = "place"
            /\ UNCHANGED attempts
       ELSE /\ attempts' = attempts + 1
            /\ UNCHANGED <<draw, pc>>
    /\ UNCHANGED <<args, attempt, word_positions, unplaced_words, widx,
                   placed, outcome, reported, result, failed_earlier>>

\* a trial: the draws raise when rows or cols is not positive; otherwise
\* can_place_word is called, and a False return ends the trial
Trial(row, col, direction) ==
    /\ pc = "while"
    /\ ~placed /\ attempts < max_attempts
    /\ rows > 0 /\ cols > 0
    /\ grid' = can_place_word_grid(grid, rows, cols, words[widx], row, col, direction)
    /\ IF can_place_word(grid, rows, cols, words[widx], row, col, direction)
       THEN /\ draw' = <<row, col, direction>>
            /\ pc' = "place"
            /\ UNCHANGED attempts
       ELSE /\ attempts' = attempts + 1
            /\ UNCHANGED <<draw, pc>>
    /\ UNCHANGED <<args, attempt, word_positions, unplaced_words, widx,
                   placed, outcome, reported, result, failed_earlier>>

\* random.randint(0, rows - 1) or random.randint(0, cols - 1) on an empty range
TrialRaises ==
    /\ pc = "while"
    /\ ~placed /\ attempts < max_attempts
    /\ (rows <= 0 \/ cols <= 0)
    /\ pc' = "done"
    /\ outcome' = "ValueError: empty range"
    /\ UNCHANGED <<args, attempt, grid, word_positions, unplaced_words, widx,
                   attempts, placed, draw, reported, result, failed_earlier>>

\* the body of the if: place_word, the record, placed = True; attempts += 1
Place ==
    /\ pc = "place"
    /\ grid' = place_word(grid, rows, cols, words[widx], draw[1], draw[2], draw[3])
    /\ word_positions' = Append(word_positions,
                                <<words[widx], draw[1], draw[2], draw[3]>>)
    /\ placed' = TRUE
    /\ attempts' = attempts + 1
    /\ draw' = NoDraw
    /\ pc' = "while"
    /\ UNCHANGED <<args, attempt, unplaced_words, widx, outcome, reported, result, failed_earlier>>

\* EndWord with a break out of the word loop after an unplaced word
EndWord_breaks_on_failure ==
    /\ pc = "while"
    /\ (placed \/ attempts >= max_attempts)
    /\ unplaced_words' = IF placed THEN unplaced_words
                         ELSE Append(unplaced_words, words[widx])
    /\ widx' = IF placed THEN widx + 1 ELSE Len(words) + 1
    /\ pc' = "for_word"
    /\ UNCHANGED <<args, attempt, grid, word_positions, attempts, placed,
                   draw, outcome, reported, result, failed_earlier>>

\* the while condition fails; if not placed: unplaced_words.append(word)
EndWord ==
    /\ pc = "while"
    /\ (placed \/ attempts >= max_attempts)
    /\ unplaced_words' = IF placed THEN unplaced_words
                         ELSE Append(unplaced_words, words[widx])
    /\ widx' = widx + 1
    /\ pc' = "for_word"
    /\ UNCHANGED <<args, attempt, grid, word_positions, attempts, placed,
                   draw, outcome, reported, result, failed_earlier>>

\* Return without the test of unplaced_words
Return_ignoring_unplaced ==
    /\ pc = "for_word"
    /\ widx > Len(words)
    /\ rows > 0
    /\ \E noise \in [EmptyCells(grid) -> NoiseLetters] :
           /\ grid' = fill_empty_spaces(grid, noise)
           /\ result' = <<grid', word_positions>>
    /\ outcome' = "returned"
    /\ pc' = "done"
    /\ UNCHANGED <<args, attempt, word_positions, unplaced_words, widx,
                   attempts, placed, draw, reported, failed_earlier>>

\* if not unplaced_words: fill_empty_spaces(grid); return grid, word_positions
Return ==
    /\ pc = "for_word"
    /\ widx > Len(words)
    /\ unplaced_words = <<>>
    /\ rows > 0
    /\ \E noise \in [EmptyCells(grid) -> NoiseLetters] :
           /\ grid' = fill_empty_spaces(grid, noise)
           /\ result' = <<grid', word_positions>>
    /\ outcome' = "returned"
    /\ pc' = "done"
    /\ UNCHANGED <<args, attempt, word_positions, unplaced_words, widx,
                   attempts, placed, draw, reported, failed_earlier>>

\* fill_empty_spaces on a grid of no rows: len(grid[0]) raises
FillRaises ==
    /\ pc = "for_word"
    /\ widx > Len(words)
    /\ unplaced_words = <<>>
    /\ rows <= 0
    /\ outcome' = "IndexError"
    /\ pc' = "done"
    /\ UNCHANGED <<args, attempt, grid, word_positions, unplaced_words, widx,
                   attempts, placed, draw, reported, result, failed_earlier>>

\* some word is unplaced: on to the next attempt
RetryStep ==
    /\ pc = "for_word"
    /\ widx > Len(words)
    /\ unplaced_words # <<>>
    /\ pc' = "for_attempt"
    /\ UNCHANGED <<args, attempt, grid, word_positions, unplaced_words, widx,
                   attempts, placed, draw, outcome, reported, result>>

\* RetryStep, with the history of the words left unplaced kept
Retry ==
    /\ RetryStep
    /\ failed_earlier' = failed_earlier \cup {unplaced_words[k] : k \in 1..Len(unplaced_words)}

Next ==
    \/ StartAttempt
    \/ RaiseUnplaced
    \/ NextWord
    \/ \E row \in 0..(rows - 1), col \in 0..(cols - 1), direction \in directions :
           Trial(row, col, direction)
    \/ TrialRaises
    \/ Place
    \/ EndWord
    \/ Return
    \/ FillRaises
    \/ Retry

Spec == Init /\ [][Next]_vars

(* ---------------- the call with the default budgets ------------------- *)
\* max_attempts=100 and max_retries=100 of the signature
default_max_attempts == 100
default_max_retries == 100

\* generate_word_search(["CAT", "DOG"], rows=3, cols=3)
InitCatDog ==
    /\ input_words = << <<"C", "A", "T">>, <<"D", "O", "G">> >>
    /\ words = sorted_by_len(input_words)
    /\ rows = 3
    /\ cols = 3
    /\ max_attempts = default_max_attempts
    /\ max_retries = default_max_retries
    /\ pc = "for_attempt"
    /\ attempt = 0
    /\ grid = generate_grid(0, 0)
    /\ word_positions = <<>>
    /\ unplaced_words = <<>>
    /\ widx = 0
    /\ attempts = 0
    /\ placed = FALSE
    /\ draw = NoDraw
    /\ outcome = "running"
    /\ reported = <<>>
    /\ result = NoResult
    /\ failed_earlier = {}

\* RetryStep, with no history kept
RetryNoHistory == RetryStep /\ UNCHANGED failed_earlier

\* the steps of a call with positive rows and cols: no draw and no fill raises
NextCatDog ==
    \/ StartAttempt
    \/ RaiseUnplaced
    \/ NextWord
    \/ \E row \in 0..(rows - 1), col \in 0..(cols - 1), direction \in directions :
           Trial(row, col, direction)
    \/ Place
    \/ EndWord
    \/ Return
    \/ RetryNoHistory

SpecCatDog == InitCatDog /\ [][NextCatDog]_vars

(* --------------------------- claim helpers ---------------------------- *)
\* the cells a record <<word, row, col, direction>> covers
RecordCells(rec) ==
    {Target(rec[2], rec[3], rec[4], i) : i \in 0..(Len(rec[1]) - 1)}

\* the word of rec reads in g from its start cell along its direction
ReadsAt(g, rec) ==
    \A i \in 0..(Len(rec[1]) - 1) :
        LET t == Target(rec[2], rec[3], rec[4], i)
        IN  t \in DOMAIN g /\ g[t] = rec[1][i + 1]

Returned == pc = "done" /\ outcome = "returned"

\* Replaying records onto g, one letter at a time: ok turns FALSE at the
\* first letter that falls outside g or onto a different letter.
RECURSIVE Replay(_, _, _, _)
Replay(g, recs, k, i) ==
    IF k > Len(recs) THEN [ok |-> TRUE, g |-> g]
    ELSE IF i >= Len(recs[k][1]) THEN Replay(g, recs, k + 1, 0)
    ELSE LET t == Target(recs[k][2], recs[k][3], recs[k][4], i)
             ch == recs[k][1][i + 1]
         IN  IF t \notin DOMAIN g \/ g[t] \notin {EMPTY, ch}
             THEN [ok |-> FALSE, g |-> g]
             ELSE Replay([g EXCEPT ![t] = ch], recs, k, i + 1)

(* ------------------------------- claims ------------------------------- *)
\* C1: when generate_word_search returns, every returned record's word
\* reads in the returned, noise-filled grid from the record's start cell
\* along its direction, letter for letter, case as given.
C1_WordsReadAtRecords ==
    Returned =>
        \A k \in 1..Len(result[2]) : ReadsAt(result[1], result[2][k])

\* C1 witness: a returned grid with two records that cross and a cell that
\* only the noise fill wrote.
C1_Witness ==
    /\ Returned
    /\ Len(result[2]) = 2
    /\ RecordCells(result[2][1]) \cap RecordCells(result[2][2]) # {}
    /\ result[2][1][1] # result[2][2][1]
    /\ \E cell \in DOMAIN result[1] :
           cell \notin RecordCells(result[2][1]) \cup RecordCells(result[2][2])

\* C2: in every state of an attempt the committed placements are
\* consistent: every record's cells lie inside the rows x cols grid and hold
\* the record's letters, and replaying the records in order onto an empty
\* grid never leaves the grid nor meets a different letter; until the noise
\* fill the replayed grid is the grid.
C2_OverlapConsistent ==
    attempt >= 1 =>
        LET replayed == Replay(generate_grid(rows, cols), word_positions, 1, 0)
        IN  /\ \A k \in 1..Len(word_positions) :
                   /\ RecordCells(word_positions[k]) \subseteq
                          (0..(rows - 1)) \X (0..(cols - 1))
                   /\ ReadsAt(grid, word_positions[k])
            /\ replayed.ok
            /\ ~Returned => replayed.g = grid

\* C2 witness: inside an attempt, two committed words share a cell.
C2_Witness ==
    /\ pc = "while"
    /\ Len(word_positions) = 2
    /\ word_positions[1][1] # word_positions[2][1]
    /\ RecordCells(word_positions[1]) \cap RecordCells(word_positions[2]) # {}


\* C3 as stated: when generate_word_search returns, every cell of the
\* returned grid holds an uppercase letter A-Z, for every word list.
C3_AllCellsUppercase ==
    Returned =>
        \A cell \in DOMAIN result[1] : result[1][cell] \in ascii_uppercase

\* the cell holds the letter that a record's word puts there
CoveredBy(g, recs, cell) ==
    \E k \in 1..Len(recs) : \E i \in 0..(Len(recs[k][1]) - 1) :
        /\ Target(recs[k][2], recs[k][3], recs[k][4], i) = cell
        /\ recs[k][1][i + 1] = g[cell]

\* C3 amended: when generate_word_search returns, the returned grid has
\* rows x cols cells, none holds the empty sentinel, and every cell holds
\* either the character a recorded word puts there (case as given) or, where
\* no word passes, an uppercase letter A-Z; all cells are uppercase letters
\* when every input word is made of uppercase letters.
C3_FilledWithWordOrNoiseLetters ==
    Returned =>
        /\ DOMAIN result[1] = (0..(rows - 1)) \X (0..(cols - 1))
        /\ \A cell \in DOMAIN result[1] :
               /\ result[1][cell] # EMPTY
               /\ \/ CoveredBy(result[1], result[2], cell)
                  \/ /\ \A k \in 1..Len(result[2]) : cell \notin RecordCells(result[2][k])
                     /\ result[1][cell] \in ascii_uppercase
        /\ (\A k \in 1..Len(input_words) : \A i \in 1..Len(input_words[k]) :
                input_words[k][i] \in ascii_uppercase)
             => \A cell \in DOMAIN result[1] : result[1][cell] \in ascii_uppercase

\* C3 witness: a returned grid with a lowercase letter of a word in one cell
\* and a noise letter in a cell no word covers.
C3_Witness ==
    /\ Returned
    /\ \E cell \in DOMAIN result[1] : result[1][cell] = "b"
    /\ \E cell \in DOMAIN result[1] :
           /\ \A k \in 1..Len(result[2]) : cell \notin RecordCells(result[2][k])
           /\ result[1][cell] = "Z"

Count(seq, x) == Cardinality({k \in 1..Len(seq) : seq[k] = x})

RecordWords(recs) == [k \in 1..Len(recs) |-> recs[k][1]]

Failures ==
    {"ValueError: Could not place", "ValueError: empty range",
     "IndexError", "UnboundLocalError"}

\* C4: the call is all-or-nothing.  Nothing is returned while it runs; when
\* it ends it has either returned, from an attempt whose unplaced list is
\* empty, the current grid with no empty cell and one record per input word
\* (the same multiset of words), or it has raised and returned nothing.
C4_AllOrNothing ==
    /\ pc # "done" => outcome = "running" /\ result = NoResult
    /\ pc = "done" =>
          \/ /\ outcome = "returned"
             /\ unplaced_words = <<>>
             /\ result = <<grid, word_positions>>
             /\ Len(result[2]) = Len(input_words)
             /\ \A w \in Words :
                    Count(RecordWords(result[2]), w) = Count(input_words, w)
             /\ DOMAIN result[1] = (0..(rows - 1)) \X (0..(cols - 1))
             /\ \A cell \in DOMAIN result[1] : result[1][cell] # EMPTY
          \/ /\ outcome \in Failures
             /\ result = NoResult

\* C4 witness: a return, after a failed attempt, for an input that holds the
\* same word twice, each with its own record.
C4_Witness ==
    /\ Returned
    /\ attempt = 2
    /\ Len(input_words) = 2
    /\ input_words[1] = input_words[2]
    /\ Len(result[2]) = 2
    /\ result[2][1] # result[2][2]

\* all is an interleaving of a and b that keeps the order of each
RECURSIVE IsMerge(_, _, _)
IsMerge(all, a, b) ==
    IF all = <<>> THEN a = <<>> /\ b = <<>>
    ELSE \/ a # <<>> /\ Head(a) = Head(all) /\ IsMerge(Tail(all), Tail(a), b)
         \/ b # <<>> /\ Head(b) = Head(all) /\ IsMerge(Tail(all), a, Tail(b))

Infeasible == outcome = "ValueError: Could not place"

\* C5: a call whose attempts all ended with an unplaced word ends with the
\* ValueError of line 84, raised after exactly max_retries >= 1 attempts and
\* with nothing returned; the words it reports are the words the last
\* attempt left unplaced, in processing order: together with the words the
\* last attempt recorded they make up the sorted word list.
C5_ReportsLastAttemptResidue ==
    /\ pc = "done" /\ attempt >= 1 /\ unplaced_words # <<>> => Infeasible
    /\ Infeasible =>
          /\ pc = "done"
          /\ max_retries >= 1 /\ attempt = max_retries
          /\ reported # <<>>
          /\ reported = unplaced_words
          /\ IsMerge(words, RecordWords(word_positions), reported)
          /\ result = NoResult

\* C5 witness: the ValueError does not name a word that an earlier attempt
\* left unplaced and the last attempt placed.
C5_Witness ==
    /\ Infeasible
    /\ \E w \in failed_earlier :
           /\ \A k \in 1..Len(reported) : reported[k] # w
           /\ \E k \in 1..Len(word_positions) : word_positions[k][1] = w

Max(a, b) == IF a >= b THEN a ELSE b

\* word is longer than the grid is wide and high, in a call with positive
\* dimensions and budgets
TooLong(word) ==
    /\ rows >= 1 /\ cols >= 1 /\ max_attempts >= 1 /\ max_retries >= 1
    /\ Len(word) > Max(rows, cols)

Occurs(seq, x) == \E k \in 1..Len(seq) : seq[k] = x

\* C6: for a word longer than max(rows, cols) (rows, cols and both budgets at
\* least 1) can_place_word is False on every grid the call reaches, for every
\* start cell and each of the eight directions; the word is never committed
\* or recorded; once its trials are over it is in the attempt's unplaced
\* list; and the call can only end with the ValueError of line 84, raised
\* after max_retries attempts, naming the word.
C6_TooLongWordIsReported ==
    \A k \in 1..Len(words) :
        TooLong(words[k]) =>
            /\ attempt >= 1 =>
                   \A row \in (-1)..rows, col \in (-1)..cols, direction \in directions :
                       ~can_place_word(grid, rows, cols, words[k], row, col, direction)
            /\ ~Occurs(RecordWords(word_positions), words[k])
            /\ pc = "place" => widx # k
            /\ (attempt >= 1 /\ (widx > k \/ pc \in {"for_attempt", "done"}))
                   => Occurs(unplaced_words, words[k])
            /\ pc = "done" =>
                   /\ Infeasible
                   /\ attempt = max_retries
                   /\ Occurs(reported, words[k])

\* C6 witness: on a 2 x 2 grid the call has ended after two attempts of two
\* trials per word; the last attempt placed the short word and the ValueError
\* names the too long one.
C6_Witness ==
    /\ pc = "done"
    /\ rows = 2 /\ cols = 2 /\ max_attempts = 2 /\ attempt = 2
    /\ Len(words) = 2
    /\ TooLong(words[1])
    /\ reported = <<words[1]>>
    /\ Len(word_positions) = 1

\* C7 as stated: with rows <= 0 or cols <= 0 the creation of the grid fails
\* with InvalidDimension at once: no grid is created without the call having
\* ended with that error, whatever the word list.
C7_InvalidDimensionAtCreation ==
    (rows <= 0 \/ cols <= 0) /\ attempt >= 1 =>
        pc = "done" /\ outcome = "InvalidDimension"

\* sorted holds the words of original, longest first, words of one length in
\* their order in original
IsStableLongestFirst(sorted, original) ==
    /\ Len(sorted) = Len(original)
    /\ \E p \in Permutations(1..Len(original)) :
           /\ \A k \in 1..Len(sorted) : sorted[k] = original[p[k]]
           /\ \A k, l \in 1..Len(sorted) :
                  k < l => \/ Len(sorted[k]) > Len(sorted[l])
                           \/ Len(sorted[k]) = Len(sorted[l]) /\ p[k] < p[l]

\* the number of words the attempt has finished (recorded or given up)
Finished == Len(word_positions) + Len(unplaced_words)

\* C9: words are processed longest first, words of equal length in input
\* order: the list the loops run over is the stable descending-length sort
\* of the input, the word on trial is the next one of that list, the words an
\* attempt has recorded and given up are, in order, the first words of that
\* list, and the returned records name exactly that list, record k the k-th
\* word.
C9_StableLongestFirstOrder ==
    /\ IsStableLongestFirst(words, input_words)
    /\ attempt >= 1 =>
          /\ Finished <= Len(words)
          /\ IsMerge(SubSeq(words, 1, Finished),
                     RecordWords(word_positions), unplaced_words)
          /\ pc = "for_word" => Finished = widx - 1
          /\ pc = "place" => Finished = widx - 1 /\ widx <= Len(words)
          /\ pc = "while" =>
                 /\ widx <= Len(words)
                 /\ Finished = IF placed THEN widx ELSE widx - 1
                 /\ placed => word_positions[Len(word_positions)][1] = words[widx]
    /\ Returned => RecordWords(result[2]) = words

\* C9 witness: a return for two different words of one length, recorded in
\* their input order.
C9_Witness ==
    /\ Returned
    /\ Len(input_words) = 2
    /\ Len(input_words[1]) = Len(input_words[2])
    /\ input_words[1] # input_words[2]
    /\ RecordWords(result[2]) = input_words

Placeable(g, word) ==
    \E row \in 0..(rows - 1), col \in 0..(cols - 1), direction \in directions :
        can_place_word(g, rows, cols, word, row, col, direction)

GridCells == (0..(rows - 1)) \X (0..(cols - 1))

\* every target of the word is a cell of the grid that is empty or holds
\* the word's letter
FitsAt(g, word, row, col, direction) ==
    \A i \in 0..(Len(word) - 1) :
        \E cell \in GridCells :
            /\ cell = Target(row, col, direction, i)
            /\ (g[cell] = EMPTY \/ g[cell] = word[i + 1])

\* C12: for the word on trial, every reachable grid, every start cell in the
\* grid or one step outside it and every direction, the executed
\* can_place_word returns True exactly when every target cell lies inside
\* [0,rows) x [0,cols) and is empty or holds word[i]; it reads grid[r][c] only
\* at index pairs inside the grid; and the value the trial uses is the value
\* it returns.
C12_CanPlaceWordExact ==
    (pc = "while" /\ rows >= 1 /\ cols >= 1) =>
        \A row \in (-1)..rows, col \in (-1)..cols, direction \in directions :
            LET run == can_place_word_run(grid, rows, cols, words[widx],
                                          row, col, direction)
            IN  /\ run.ret = FitsAt(grid, words[widx], row, col, direction)
                /\ run.reads \subseteq GridCells
                /\ run.ret = can_place_word(grid, rows, cols, words[widx],
                                            row, col, direction)

\* C12 witness: a start cell in the grid and a direction for which the word
\* on trial runs out over the near edge and is refused, although the cells
\* that negative indices would reach from the far edge are empty or match.
C12_Witness ==
    /\ pc = "while"
    /\ word_positions # <<>>
    /\ \E row \in 0..(rows - 1), col \in 0..(cols - 1), direction \in directions :
           /\ ~can_place_word_run(grid, rows, cols, words[widx],
                                  row, col, direction).ret
           /\ can_place_word_no_lower_bound(grid, rows, cols, words[widx],
                                            row, col, direction)

\* the words of the current attempt whose inner loop has ended
WordsDone ==
    IF pc = "for_word" THEN widx - 1
    ELSE IF pc = "while" /\ placed THEN widx
    ELSE widx - 1

\* C13: every attempt starts fresh: when its first word is about to be
\* taken, the grid is a rows x cols grid of empty cells and the record list
\* and the unplaced list are empty.  Nothing of an earlier attempt is visible
\* later: during an attempt the records and the unplaced list hold one entry
\* per word of this attempt whose loop has ended and no other, the grid holds
\* exactly the letters of this attempt's records, and a returned result
\* holds the records of the returning attempt only, one per word.
C13_AttemptStartsFresh ==
    /\ (pc = "for_word" /\ widx = 1) =>
           /\ grid = generate_grid(rows, cols)
           /\ DOMAIN grid = GridCells
           /\ \A cell \in DOMAIN grid : grid[cell] = EMPTY
           /\ word_positions = <<>>
           /\ unplaced_words = <<>>
    /\ (attempt >= 1 /\ pc \in {"for_word", "while", "place"}) =>
           /\ Len(word_positions) + Len(unplaced_words) = WordsDone
           /\ \A cell \in DOMAIN grid :
                  \/ grid[cell] = EMPTY
                  \/ CoveredBy(grid, word_positions, cell)
    /\ Returned =>
           /\ result[2] = word_positions
           /\ Len(result[2]) = Len(words)
           /\ unplaced_words = <<>>

\* C13 witness: the second attempt is about to take its first word, after a
\* first attempt that committed the first word and left the second unplaced.
C13_Witness ==
    /\ pc = "for_word" /\ widx = 1
    /\ attempt = 2
    /\ Len(words) = 2
    /\ words[1] \notin failed_earlier
    /\ words[2] \in failed_earlier
    /\ rows >= 1 /\ cols >= 1

\* the attempt's word loop is over
AttemptEnded == attempt >= 1 /\ pc = "for_word" /\ widx > Len(words)

\* the state between two attempts or after the last one
GridGivenUp == attempt >= 1 /\ pc = "for_attempt"

\* the step of a word whose trial budget is used up without a placement
GivesUpWord ==
    (pc = "while" /\ ~placed /\ attempts >= max_attempts) =>
        /\ unplaced_words' = Append(unplaced_words, words[widx])
        /\ widx' = widx + 1
        /\ pc' = "for_word"
        /\ attempt' = attempt
        /\ grid' = grid
        /\ word_positions' = word_positions

\* the step after a word: the next word of the order, if any, enters its
\* trial loop in the same attempt on the same grid
TakesNextWord ==
    (pc = "for_word" /\ widx <= Len(words)) =>
        /\ pc' = "while"
        /\ widx' = widx
        /\ attempts' = 0 /\ placed' = FALSE
        /\ attempt' = attempt
        /\ grid' = grid
        /\ word_positions' = word_positions
        /\ unplaced_words' = unplaced_words

\* C14: a word that uses up its trial budget is appended to the unplaced
\* list and the attempt goes on: the next step takes the next word of the
\* order into its trial loop, in the same attempt and on the same grid.  When
\* the word loop of an attempt is over, the recorded words and the unplaced
\* words, each in order, merge into the whole word list (every word, counted
\* by position, is in exactly one of them); and a grid is given up for the
\* next attempt only in that situation, with at least one word unplaced.
C14_FailureDoesNotAbortAttempt ==
    /\ [](AttemptEnded =>
             /\ IsMerge(words, RecordWords(word_positions), unplaced_words)
             /\ Len(word_positions) + Len(unplaced_words) = Len(words))
    /\ [](GridGivenUp =>
             /\ widx = Len(words) + 1
             /\ unplaced_words # <<>>
             /\ IsMerge(words, RecordWords(word_positions), unplaced_words))
    /\ [][GivesUpWord /\ TakesNextWord]_vars

\* C14 witness: the first word was given up and the second word, tried
\* afterwards in the same attempt on the same grid, has been committed.
C14_Witness ==
    /\ pc = "while"
    /\ widx = 2
    /\ placed
    /\ unplaced_words = <<words[1]>>
    /\ Len(word_positions) = 1
    /\ word_positions[1][1] = words[2]
    /\ ReadsAt(grid, word_positions[1])

\* place_word is about to run: the call of can_place_word just before it, for
\* the same word, row, col and direction on this grid, returned True
PlaceIsChecked ==
    pc = "place" =>
        /\ draw # NoDraw
        /\ ~placed
        /\ widx \in 1..Len(words)
        /\ can_place_word_run(grid, rows, cols, words[widx],
                              draw[1], draw[2], draw[3]).ret

\* the step into place_word is a trial whose can_place_word returned True
\* for the arguments kept in draw, and it writes no cell
EntersPlaceChecked ==
    (pc' = "place" /\ pc # "place") =>
        /\ pc = "while" /\ ~placed
        /\ grid' = grid
        /\ widx' = widx
        /\ can_place_word(grid, rows, cols, words[widx], draw'[1], draw'[2], draw'[3])

\* place_word writes the word's letters into cells of the grid that were
\* empty or held the same letter, changes no other cell, and ends the trials
WritesOnlyChecked ==
    pc = "place" =>
        /\ DOMAIN grid' = DOMAIN grid
        /\ \A i \in 0..(Len(words[widx]) - 1) :
               LET t == Target(draw[1], draw[2], draw[3], i)
               IN  /\ t \in GridCells
                   /\ grid[t] \in {EMPTY, words[widx][i + 1]}
                   /\ grid'[t] = words[widx][i + 1]
        /\ \A cell \in DOMAIN grid :
               grid'[cell] # grid[cell] => grid[cell] = EMPTY
        /\ word_positions' = Append(word_positions,
                                    <<words[widx], draw[1], draw[2], draw[3]>>)
        /\ placed'

\* inside an attempt the word letters of the grid are written by place_word
\* only, and a committed word gets no further trial
OnlyPlaceWrites ==
    /\ (pc \in {"for_word", "while"} /\ pc' # "done") => grid' = grid
    /\ (pc = "while" /\ placed) =>
           /\ pc' = "for_word"
           /\ widx' = widx + 1
           /\ word_positions' = word_positions

\* C15: place_word runs only directly after can_place_word returned True
\* for the same word, row, col and direction on the same grid, with no write
\* to the grid in between; so a placement writes only cells of the grid that
\* were empty or already held the letter written, and no cell outside the
\* word's targets; a word is committed at most once per attempt: its trials
\* stop at the first success and the records never outnumber the words whose
\* loop has ended.
C15_PlaceOnlyAfterCheck ==
    /\ []PlaceIsChecked
    /\ []((attempt >= 1 /\ pc \in {"for_word", "while", "place"}) =>
             Len(word_positions) <= WordsDone)
    /\ [][EntersPlaceChecked /\ WritesOnlyChecked /\ OnlyPlaceWrites]_vars

\* C15 witness: after a first trial that was refused, the second trial of
\* the second word passed can_place_word over the letter the first word had
\* written, and place_word has committed it.
C15_Witness ==
    /\ pc = "while"
    /\ placed
    /\ widx = 2
    /\ attempts = 2
    /\ Len(word_positions) = 2
    /\ RecordCells(word_positions[2]) \subseteq RecordCells(word_positions[1])
    /\ \E cell \in DOMAIN grid : grid[cell] = EMPTY

\* the trials the current word has received in this attempt: attempts
\* counts the finished ones, and one more is under way at place_word
TrialsOfWord == IF pc = "place" THEN attempts + 1 ELSE attempts

\* the trials the budgets still allow from this state on: those of the
\* attempts not yet started, of the words of this attempt not yet taken, and
\* of the word on trial
TrialsLeft ==
    LET later == (max_retries - attempt) * Len(words) * max_attempts
    IN  IF pc = "for_attempt" THEN later
        ELSE IF pc = "for_word"
             THEN later + (Len(words) - widx + 1) * max_attempts
        ELSE IF pc \in {"while", "place"}
             THEN later + (Len(words) - widx) * max_attempts
                        + (IF placed THEN 0 ELSE max_attempts - TrialsOfWord)
        ELSE 0

\* the steps of one word (its start, two per trial, its end) and of one
\* attempt (its start, its words, its end)
StepsPerWord == 2 * max_attempts + 2
StepsPerAttempt == Len(words) * StepsPerWord + 2

\* a bound on the steps the call can still take from this state
StepsLeft ==
    LET later == (max_retries - attempt) * StepsPerAttempt + 1
    IN  IF pc = "for_attempt" THEN later
        ELSE IF pc = "for_word"
             THEN later + (Len(words) - widx + 1) * StepsPerWord + 1
        ELSE IF pc = "while"
             THEN later + (Len(words) - widx) * StepsPerWord + 2
                        + (IF placed THEN 0 ELSE 2 * (max_attempts - attempts))
        ELSE IF pc = "place"
             THEN later + (Len(words) - widx) * StepsPerWord + 1
                        + 2 * (max_attempts - attempts)
        ELSE 0

\* the step is a trial: a draw and a call of can_place_word
IsTrial == pc = "while" /\ pc' \in {"while", "place"} /\ ~placed /\ ~placed'

\* the budgets are never exceeded and the bounds on what is left are sound
WithinBudgets ==
    /\ 0 <= attempt /\ attempt <= max_retries
    /\ pc \in {"while", "place"} =>
           /\ 0 <= attempts
           /\ TrialsOfWord <= max_attempts
    /\ 0 <= TrialsLeft
    /\ TrialsLeft <= max_retries * Len(words) * max_attempts
    /\ 0 <= StepsLeft
    /\ (pc = "for_attempt" /\ attempt = 0) =>
           TrialsLeft = max_retries * Len(words) * max_attempts

\* a trial is taken only below the word's budget and uses up one of the
\* trials left, an attempt is started only below the retry budget, no step
\* gives trials back, every step uses up at least one of the steps left, and
\* no step follows the end of the call
SpendsBudgets ==
    /\ IsTrial =>
           /\ attempts < max_attempts
           /\ TrialsLeft' <= TrialsLeft - 1
    /\ attempt' # attempt =>
           /\ attempt < max_retries
           /\ attempt' = attempt + 1
    /\ TrialsLeft' <= TrialsLeft
    /\ StepsLeft' < StepsLeft
    /\ pc # "done"

\* C16: the budgets bound the run, for max_attempts >= 0 and max_retries >=
\* 0: a word never has more than max_attempts trials in an attempt, never
\* more than max_retries attempts are started, every trial uses up one of
\* the max_retries x |words| x max_attempts trials the call starts with and
\* none is given back, so there are never more trials than that; every step
\* lowers a bound on the steps left that is never negative and a call that
\* has not ended can always take a step, so every execution ends, by a return
\* or by an exception; and after the end (a return included) no step and so
\* no attempt follows.
C16_BudgetsBoundTheRun ==
    /\ []WithinBudgets
    /\ [](pc # "done" => ENABLED Next)
    /\ [](pc = "done" => outcome # "running")
    /\ [][SpendsBudgets]_vars

\* C16 witness: the call has used every trial the budgets allow: two
\* attempts, in each of which both words used both of their trials without a
\* placement, and it has ended with the ValueError.
C16_Witness ==
    /\ pc = "done" /\ Infeasible
    /\ rows >= 1 /\ cols >= 1
    /\ max_retries = 2 /\ attempt = 2
    /\ max_attempts = 2 /\ attempts = 2
    /\ Len(words) = 2
    /\ unplaced_words = words
    /\ Cardinality(failed_earlier) = 2

\* C17: a call with max_retries = 0 (on a grid with rows, cols >= 1) ends
\* with the ValueError of line 84 (PlacementInfeasible) carrying the list of
\* unplaced words, as a call with any other used-up retry budget does; it
\* ends with no other error and returns no grid.
C17_ZeroRetriesIsPlacementInfeasible ==
    (pc = "done" /\ max_retries = 0 /\ rows >= 1 /\ cols >= 1) =>
        /\ Infeasible
        /\ reported = unplaced_words
        /\ result = NoResult

\* the word on trial is a single letter, in a grid with cells
SingleLetterOnTrial ==
    /\ pc \in {"while", "place"}
    /\ rows >= 1 /\ cols >= 1
    /\ Len(words[widx]) = 1

\* C18: for a single-letter word on trial in a grid with rows, cols >= 1,
\* for every cell of the grid and each of the eight directions,
\* can_place_word returns True on the all-empty grid, and on the current
\* grid it returns True exactly when the cell is empty or holds the word's
\* letter, whatever the direction.  So a single-letter word that is first in
\* the order is committed by its first trial: while it is on trial it has had
\* no trial, once it is placed it has had exactly one, and with a trial budget
\* of at least 1 it is recorded, not given up, when the second word is taken.
C18_SingleLetterPlaceable ==
    /\ SingleLetterOnTrial =>
           \A cell \in GridCells, direction \in directions :
               /\ can_place_word(generate_grid(rows, cols), rows, cols,
                                 words[widx], cell[1], cell[2], direction)
               /\ can_place_word(grid, rows, cols, words[widx],
                                 cell[1], cell[2], direction)
                      = (grid[cell] = EMPTY \/ grid[cell] = words[widx][1])
               /\ can_place_word_run(grid, rows, cols, words[widx],
                                     cell[1], cell[2], direction).ret
                      = (grid[cell] = EMPTY \/ grid[cell] = words[widx][1])
    /\ (SingleLetterOnTrial /\ widx = 1) =>
           /\ pc = "while" => attempts = (IF placed THEN 1 ELSE 0)
           /\ pc = "place" => attempts = 0
    /\ (attempt >= 1 /\ pc = "for_word" /\ widx = 2 /\ Len(words[1]) = 1
          /\ rows >= 1 /\ cols >= 1 /\ max_attempts >= 1) =>
           /\ attempts = 1
           /\ Len(word_positions) = 1
           /\ word_positions[1][1] = words[1]
           /\ unplaced_words = <<>>

\* C18 witness: a single-letter word, first in the order, has been committed
\* by its first trial in the corner cell <<0, 0>> with the direction that
\* leads up and left out of the grid, with a second trial still in the budget.
C18_Witness ==
    /\ pc = "while"
    /\ widx = 1
    /\ placed
    /\ attempts = 1
    /\ max_attempts = 2
    /\ Len(words[1]) = 1
    /\ word_positions = << <<words[1], 0, 0, <<-1, -1>> >> >>
    /\ rows = 2 /\ cols = 2

\* the step on which fill_empty_spaces runs and the call returns
FillStep == outcome = "running" /\ outcome' = "returned"

\* fill_empty_spaces keeps every non-empty cell and gives every empty cell
\* an uppercase letter; it runs on the grid of an attempt that has tried
\* every word and left none unplaced
FillsOnlyEmptyCells ==
    FillStep =>
        /\ pc = "for_word" /\ widx > Len(words)
        /\ unplaced_words = <<>>
        /\ RecordWords(word_positions) = words
        /\ DOMAIN grid' = DOMAIN grid
        /\ \A cell \in DOMAIN grid :
               IF grid[cell] = EMPTY
               THEN grid'[cell] \in ascii_uppercase
               ELSE grid'[cell] = grid[cell]
        /\ result' = <<grid', word_positions>>

\* no other step puts a letter into a cell, but for the letters of the word
\* that place_word commits
NoFillElsewhere ==
    (~FillStep /\ pc # "for_attempt") =>
        \A cell \in DOMAIN grid :
            grid'[cell] # grid[cell] =>
                /\ pc = "place"
                /\ cell \in RecordCells(<<words[widx], draw[1], draw[2], draw[3]>>)

\* C19: fill_empty_spaces changes only empty cells: on the step on which
\* it runs every cell that held a letter holds the same letter afterwards
\* and every cell that was empty holds a letter of A-Z; it runs only on the
\* grid of an attempt that has recorded every word and has no unplaced word;
\* no other step fills a cell; and it runs once per returning call: it is
\* followed by the return, after which the call takes no step, so a returned
\* grid has no empty cell and is the filled grid.
C19_FillChangesOnlyEmptyCells ==
    /\ [](Returned =>
             /\ result[1] = grid
             /\ \A cell \in DOMAIN grid : grid[cell] # EMPTY)
    /\ [](outcome # "returned" =>
             \A cell \in DOMAIN grid :
                 \/ grid[cell] = EMPTY
                 \/ CoveredBy(grid, word_positions, cell))
    /\ [][FillsOnlyEmptyCells /\ NoFillElsewhere /\ outcome # "returned"]_vars

\* C19 witness: the second attempt of a call, after a first one that left a
\* word unplaced and was not filled, has returned a grid in which a cell
\* keeps the lowercase letter of a word and two cells no word covers got
\* different noise letters.
C19_Witness ==
    /\ Returned
    /\ attempt = 2
    /\ failed_earlier # {}
    /\ \E cell \in DOMAIN grid :
           /\ grid[cell] = "b"
           /\ CoveredBy(grid, word_positions, cell)
    /\ \E c1, c2 \in DOMAIN grid :
           /\ \A k \in 1..Len(word_positions) :
                  {c1, c2} \cap RecordCells(word_positions[k]) = {}
           /\ grid[c1] = "A" /\ grid[c2] = "Z"

====
